---- MODULE Spec2Model ----
(***************************************************************************)
(* A model of pdfget's download coordinator (manager.py), retry wrapper    *)
(* (retry.py), rate limiter (utils/rate_limiter.py), cache                 *)
(* (utils/cache_manager.py), PMID-to-PMCID resolver, DOI converter         *)
(* (doi_converter.py) and identifier functions                             *)
(* (utils/identifier_utils.py).                                            *)
(*                                                                         *)
(* The specifications share the module, one per component:                 *)
(*   Spec       UnifiedDownloadManager.download_batch and its worker pool  *)
(*   SpecRetry  retry_with_backoff's wrapper around one unreliable call    *)
(*   SpecRL     RateLimiter.wait_for_rate_limit on a discrete clock        *)
(*   SpecCache  CacheManager's operations on its directory of files        *)
(*   SpecResolver  the PMID-to-PMCID resolver's rounds of batch calls      *)
(*   SpecConverter DOIConverter.doi_to_pmcid, its queries and its cache    *)
(*   SpecIdentifier IdentifierUtils' classification and normalisation      *)
(***************************************************************************)
EXTENDS Integers, Sequences, FiniteSets, TLC

(***************************************************************************)
(* Bounds of the model.                                                    *)
(***************************************************************************)
MaxItems == 2
MaxWorkers == 2

(***************************************************************************)
(* Python values.  None stands for None and for an absent dict key (the    *)
(* code reads every key with .get); "" is the empty string.  Both are      *)
(* falsy.                                                                  *)
(***************************************************************************)
None == "None"
Truthy(x) == x \notin {None, ""}
\* Python's `a or b`
Or(a, b) == IF Truthy(a) THEN a ELSE b

Dois == {"10.1/a", "10.1/b"}
Pmcids == {"PMC1"}
\* the elements a list[str] input may hold, and the dicts a list[dict] may hold
StrItems == {"", "10.1/a"}
DictItems == {[doi |-> None, pmcid |-> None], [doi |-> "10.1/a", pmcid |-> None],
              [doi |-> None, pmcid |-> "PMC1"], [doi |-> "10.1/b", pmcid |-> "PMC1"]}

SeqsUpTo(S, n) == UNION {[1..k -> S] : k \in 0..n}
Inputs ==
    {[kind |-> "strs", strs |-> s, dicts |-> <<>>] : s \in SeqsUpTo(StrItems, MaxItems)}
    \cup
    {[kind |-> "dicts", strs |-> <<>>, dicts |-> d] :
        d \in SeqsUpTo(DictItems, MaxItems) \ {<<>>}}

Tasks == 1..MaxItems

VARIABLES
    \* ---- UnifiedDownloadManager ----
    max_workers,    \* self.max_workers
    items,          \* the argument of the current download_batch call
    papers,         \* download_batch's local `papers`
    mpc,            \* position of the calling thread
    submitted,      \* number of futures submitted to the executor
    tpc,            \* position of each task
    tloc,           \* each task's locals: doi, pmcid, result
    tmp,            \* the counter values a task has loaded inside _update_progress
    nupdates,       \* how many times each task has completed _update_progress
    lock,           \* self._lock: 0 when free, else the task holding it
    completed, successful, failed, pdf_count, total,
    results,        \* _download_concurrent's local `results`, in collection order
    collected,      \* the futures as_completed has yielded
    ret,            \* the value download_batch returned
    \* ---- retry_with_backoff ----
    max_retries,    \* the decorator's max_retries argument: <<>> for None, <<n>> for n
    use_config,     \* the decorator's use_config argument
    rpc,            \* position of the wrapper
    retry,          \* the wrapper's loop variable
    last_exception, \* the wrapper's last_exception
    wait_time,      \* the wait in progress, in tenths of a second
    calls,          \* how many times the wrapped function was invoked
    waits,          \* how many waits the wrapper has slept
    outcome,        \* what the wrapper gave its caller: a value or an exception
    \* ---- RateLimiter ----
    now,                \* time.time(), in clock ticks
    nthreads,           \* how many threads use the limiter
    last_request_time,  \* self.last_request_time
    lpc,                \* position of each thread in wait_for_rate_limit
    current_time,       \* each thread's local current_time
    wake,               \* the time at which a sleeping thread's sleep is over
    returned,           \* when the last two calls returned, oldest first
    \* ---- CacheManager ----
    cclock,         \* time.time(), in clock ticks
    concurrent,     \* whether the second thread uses the cache too
    files,          \* the cache directory: what each cache file holds
    cpc,            \* position of each thread in set or get
    ckey,           \* each thread's argument `key`
    cache_data,     \* set's local cache_data
    orphan,         \* whether the file a thread is writing has been unlinked
    cres,           \* the operation a thread completed last, and what it returned
    promised,       \* per key: the value that set stored without ttl, until the
                    \* next set, delete or clear; "gone" once the cache removed
                    \* the entry; else "unknown"
    \* ---- PMCIDRetriever ----
    pmids,          \* the PMIDs collected from the papers, in input order
    avail,          \* per PMID: the first round in which the API answers for it
    ppc,            \* position of process_papers
    pround,         \* the rounds started so far
    queue,          \* the PMIDs of this round that are not submitted yet
    pmcid_map,      \* per PMID: 0, or the round whose response gave its PMCID
    api_calls,      \* the calls of the summary endpoint: round and PMIDs carried
    progress,       \* whether the current round has resolved a PMID
    \* ---- DOIConverter ----
    doi_cache,      \* self._cache: per DOI "absent", or the cached PMCID or None
    dlast,          \* the last doi_to_pmcid call: its DOI, its result, the requests
                    \* it sent, its rate limiter calls, whether the DOI had been
                    \* converted before
    first_result,   \* per DOI: what doi_to_pmcid returned first since the last
                    \* clear_cache, else "unknown"
    no_fallback,    \* per DOI: whether its cache entry is the None of a call that
                    \* was made with use_fallback=False
    dpc,            \* position of doi_to_pmcid: idle, or wait, send, sleep in a query
    dstage,         \* the query in progress: doi, crossref or title
    dretry,         \* the loop variable of the wrapper around _request
    dfallback,      \* the argument use_fallback of the last call
    dresp,          \* what the last session.get did
    dwaited,        \* whether wait_for_rate_limit has returned since the last
                    \* session.get
    \* ---- IdentifierUtils ----
    input,          \* the string handed to the functions
    detected,       \* what detect_identifier_type returned, "unset" before the call
    normalized      \* what normalize_pmcid returned: <<>> before the call, else
                    \* <<r>> with r the returned string, or NoString for None

mvars == <<max_workers, items, papers, mpc, submitted, tpc, tloc, tmp, nupdates,
           lock, completed, successful, failed, pdf_count, total, results,
           collected, ret>>

rvars == <<max_retries, use_config, rpc, retry, last_exception, wait_time, calls,
           waits, outcome>>

lvars == <<now, nthreads, last_request_time, lpc, current_time, wake, returned>>

cvars == <<cclock, concurrent, files, cpc, ckey, cache_data, orphan, cres, promised>>

pvars == <<pmids, avail, ppc, pround, queue, pmcid_map, api_calls, progress>>

dvars == <<doi_cache, dlast, first_result, no_fallback, dpc, dstage, dretry, dfallback,
          dresp, dwaited>>

ivars == <<input, detected, normalized>>
vars == <<mvars, rvars, lvars, cvars, pvars, dvars, ivars>>

\* what an action of one component leaves alone
notManager == <<rvars, lvars, cvars, pvars, dvars, ivars>>
notRetry == <<mvars, lvars, cvars, pvars, dvars, ivars>>
notLimiter == <<mvars, rvars, cvars, pvars, dvars, ivars>>
notCache == <<mvars, rvars, lvars, pvars, dvars, ivars>>
notResolver == <<mvars, rvars, lvars, cvars, dvars, ivars>>
notConverter == <<mvars, rvars, lvars, cvars, pvars, ivars>>
notIdentifier == <<mvars, rvars, lvars, cvars, pvars, dvars>>

(***************************************************************************)
(* manager.py                                                              *)
(***************************************************************************)
NoResult == [doi |-> None, pmcid |-> None, success |-> FALSE, path |-> None,
             error |-> None, src |-> 0]
NoLocals == [doi |-> None, pmcid |-> None, result |-> NoResult]
NoCounters == [completed |-> 0, successful |-> 0, failed |-> 0, pdf_count |-> 0]

\* _normalize_input: (papers, dois)
NormalizePapers(in) ==
    IF in.kind = "dicts" /\ in.dicts # <<>>
    THEN in.dicts
    ELSE [i \in 1..Len(in.strs) |-> [doi |-> in.strs[i], pmcid |-> None]]

NormalizeDois(in) ==
    IF in.kind = "dicts" /\ in.dicts # <<>>
    THEN LET p == in.dicts
             RECURSIVE pick(_)
             pick(i) == IF i > Len(p) THEN <<>>
                        ELSE IF Truthy(p[i].doi) THEN <<p[i].doi>> \o pick(i + 1)
                        ELSE pick(i + 1)
         IN pick(1)
    ELSE in.strs

InputLen(in) == IF in.kind = "dicts" THEN Len(in.dicts) ELSE Len(in.strs)

PmcidCount(ps) == Cardinality({i \in 1..Len(ps) : Truthy(ps[i].pmcid)})

\* download_batch's two early returns
ReturnsEarly(in) ==
    \/ InputLen(in) = 0
    \/ NormalizeDois(in) = <<>> /\ PmcidCount(NormalizePapers(in)) = 0

\* the key under which _download_concurrent files a collected result
ResultKey(r) ==
    IF Truthy(r.doi) THEN r.doi
    ELSE IF Truthy(r.pmcid) THEN r.pmcid
    ELSE None

\* identifier_to_result.get(id): the last collected result filed under id
LookupResult(rs, id) ==
    LET hits == {i \in 1..Len(rs) : ResultKey(rs[i]) = id}
    IN IF hits = {} THEN NoResult
       ELSE rs[CHOOSE i \in hits : \A j \in hits : j <= i]

NotFoundResult(p) ==
    [doi |-> Or(p.doi, ""), pmcid |-> Or(p.pmcid, ""), success |-> FALSE,
     path |-> None, error |-> "Not found", src |-> 0]

\* the slot the reorder loop emits for one paper: a sequence of 0 or 1 results
SlotFor(rs, p) ==
    LET identifier == Or(p.doi, p.pmcid)
    IN IF Truthy(identifier)
       THEN IF \E i \in 1..Len(rs) : ResultKey(rs[i]) = identifier
            THEN <<LookupResult(rs, identifier)>>
            ELSE <<NotFoundResult(p)>>
       ELSE <<>>

RECURSIVE ReorderFrom(_, _, _)
ReorderFrom(rs, ps, i) ==
    IF i > Len(ps) THEN <<>> ELSE SlotFor(rs, ps[i]) \o ReorderFrom(rs, ps, i + 1)

OrderedResults(rs, ps) == ReorderFrom(rs, ps, 1)

Running(t) == tpc[t] \in {"running", "update", "locked"}

\* ThreadPoolExecutor: a worker is free, and t is the head of the FIFO work queue
WorkerFree_Unbounded == TRUE
WorkerFree == Cardinality({t \in Tasks : Running(t)}) < max_workers
QueueHead(t) == tpc[t] = "pending" /\ \A u \in Tasks : u < t => tpc[u] # "pending"

LockFree_NoLock == TRUE
LockFree == lock = 0

\* download_batch(items)
DownloadBatch ==
    /\ mpc = "idle"
    /\ \E in \in Inputs :
        /\ items' = in
        /\ IF ReturnsEarly(in)
           THEN /\ mpc' = "done"
                /\ ret' = <<>>
                /\ papers' = IF InputLen(in) = 0 THEN <<>> ELSE NormalizePapers(in)
                /\ UNCHANGED <<completed, successful, failed, pdf_count, total>>
           ELSE /\ mpc' = "submit"
                /\ ret' = <<>>
                /\ papers' = NormalizePapers(in)
                /\ total' = Len(NormalizePapers(in))
                /\ completed' = 0
                /\ successful' = 0
                /\ failed' = 0
                /\ pdf_count' = 0
    /\ submitted' = 0
    /\ tpc' = [t \in Tasks |-> "none"]
    /\ tloc' = [t \in Tasks |-> NoLocals]
    /\ tmp' = [t \in Tasks |-> NoCounters]
    /\ nupdates' = [t \in Tasks |-> 0]
    /\ results' = <<>>
    /\ collected' = {}
    /\ UNCHANGED <<notManager, max_workers, lock>>

\* executor.submit(self._download_single_task, doi, pmcid, ...)
Submit ==
    /\ mpc = "submit"
    /\ LET t == submitted + 1
       IN /\ submitted' = t
          /\ tpc' = [tpc EXCEPT ![t] = "pending"]
          /\ tloc' = [tloc EXCEPT ![t] = [doi |-> papers[t].doi,
                                          pmcid |-> papers[t].pmcid,
                                          result |-> NoResult]]
          /\ mpc' = IF t = Len(papers) THEN "collect" ELSE "submit"
    /\ UNCHANGED <<notManager, max_workers, items, papers, tmp, nupdates, lock, completed,
                   successful, failed, pdf_count, total, results, collected, ret>>

\* a pool worker takes the task from the work queue
Start(t) ==
    /\ QueueHead(t)
    /\ WorkerFree
    /\ tpc' = [tpc EXCEPT ![t] = "running"]
    /\ UNCHANGED <<notManager, max_workers, items, papers, mpc, submitted, tloc, tmp, nupdates,
                   lock, completed, successful, failed, pdf_count, total, results,
                   collected, ret>>

\* the result of the except branch of _download_single_task
ExceptionResult(t) ==
    [doi |-> tloc[t].doi, pmcid |-> None, success |-> FALSE, path |-> None,
     error |-> "exc", src |-> t]

Raise(t) ==
    /\ tpc' = [tpc EXCEPT ![t] = "update"]
    /\ tloc' = [tloc EXCEPT ![t].result = ExceptionResult(t)]

\* result["doi"] = doi; result["pmcid"] = pmcid or ""
Finish(t, pmcid, success, path, error) ==
    /\ tpc' = [tpc EXCEPT ![t] = "update"]
    /\ tloc' = [tloc EXCEPT ![t].pmcid = pmcid,
                            ![t].result = [doi |-> tloc[t].doi,
                                           pmcid |-> Or(pmcid, ""),
                                           success |-> success, path |-> path,
                                           error |-> error, src |-> t]]

\* fetcher.pdf_downloader.download_pdf(pmcid, doi): a dict with a path, a dict
\* without one (success or not), or an exception
DownloadPdf(t, pmcid) ==
    \/ Finish(t, pmcid, TRUE, "file.pdf", None)
    \/ Finish(t, pmcid, TRUE, None, None)
    \/ Finish(t, pmcid, FALSE, None, "download failed")
    \/ Raise(t)

\* the try block of _download_single_task up to the progress update:
\* time.sleep(self._get_delay()), which may raise; then download_pdf with the
\* known PMCID, or fetcher.search_papers(doi, limit=1) first, which may raise,
\* find no PMCID, or find one to download
Attempt(t) ==
    /\ tpc[t] = "running"
    /\ \/ Raise(t)
       \/ /\ Truthy(tloc[t].pmcid)
          /\ DownloadPdf(t, tloc[t].pmcid)
       \/ /\ ~Truthy(tloc[t].pmcid)
          /\ \/ \E p \in Pmcids : DownloadPdf(t, p)
             \/ Finish(t, tloc[t].pmcid, FALSE, None, "No PMCID found")
             \/ Raise(t)
    /\ UNCHANGED <<notManager, max_workers, items, papers, mpc, submitted, tmp, nupdates, lock,
                   completed, successful, failed, pdf_count, total, results,
                   collected, ret>>

\* _update_progress: `with self._lock:` entered, the counters loaded
LockAndLoad(t) ==
    /\ tpc[t] = "update"
    /\ LockFree
    /\ lock' = t
    /\ tpc' = [tpc EXCEPT ![t] = "locked"]
    /\ tmp' = [tmp EXCEPT ![t] = [completed |-> completed, successful |-> successful,
                                  failed |-> failed, pdf_count |-> pdf_count]]
    /\ UNCHANGED <<notManager, max_workers, items, papers, mpc, submitted, tloc, nupdates,
                   completed, successful, failed, pdf_count, total, results,
                   collected, ret>>

\* _update_progress: the counters stored, the lock released; the task returns
StoreAndReturn(t) ==
    /\ tpc[t] = "locked"
    /\ LET success == tloc[t].result.success
           pdf_downloaded == Truthy(tloc[t].result.path)
       IN /\ completed' = tmp[t].completed + 1
          /\ successful' = IF success THEN tmp[t].successful + 1 ELSE successful
          /\ pdf_count' = IF success /\ pdf_downloaded THEN tmp[t].pdf_count + 1
                          ELSE pdf_count
          /\ failed' = IF success THEN failed ELSE tmp[t].failed + 1
    /\ lock' = IF lock = t THEN 0 ELSE lock
    /\ tmp' = [tmp EXCEPT ![t] = NoCounters]
    /\ nupdates' = [nupdates EXCEPT ![t] = @ + 1]
    /\ tpc' = [tpc EXCEPT ![t] = "finished"]
    /\ UNCHANGED <<notManager, max_workers, items, papers, mpc, submitted, tloc, total, results,
                   collected, ret>>

\* as_completed yields a finished future; results.append(future.result()).
\* _download_single_task catches every Exception itself, so future.result()
\* does not raise and the except branch of the collection loop is not taken.
Collect(t) ==
    /\ mpc = "collect"
    /\ tpc[t] = "finished"
    /\ t \notin collected
    /\ collected' = collected \cup {t}
    /\ results' = Append(results, tloc[t].result)
    /\ UNCHANGED <<notManager, max_workers, items, papers, mpc, submitted, tpc, tloc, tmp,
                   nupdates, lock, completed, successful, failed, pdf_count, total,
                   ret>>

\* the reorder loop, and the return of download_batch
Reorder ==
    /\ mpc = "collect"
    /\ collected = 1..Len(papers)
    /\ ret' = OrderedResults(results, papers)
    /\ mpc' = "done"
    /\ UNCHANGED <<notManager, max_workers, items, papers, submitted, tpc, tloc, tmp, nupdates,
                   lock, completed, successful, failed, pdf_count, total, results,
                   collected>>

\* the caller is done with the returned list; the manager and its counters stay
Idle ==
    /\ mpc = "done"
    /\ mpc' = "idle"
    /\ items' = [kind |-> "strs", strs |-> <<>>, dicts |-> <<>>]
    /\ papers' = <<>>
    /\ submitted' = 0
    /\ tpc' = [t \in Tasks |-> "none"]
    /\ tloc' = [t \in Tasks |-> NoLocals]
    /\ results' = <<>>
    /\ collected' = {}
    /\ ret' = <<>>
    /\ nupdates' = [t \in Tasks |-> 0]
    /\ UNCHANGED <<notManager, max_workers, tmp, lock, completed, successful, failed,
                   pdf_count, total>>

InitManager ==
    /\ max_workers \in 1..MaxWorkers
    /\ items = [kind |-> "strs", strs |-> <<>>, dicts |-> <<>>]
    /\ papers = <<>>
    /\ mpc = "idle"
    /\ submitted = 0
    /\ tpc = [t \in Tasks |-> "none"]
    /\ tloc = [t \in Tasks |-> NoLocals]
    /\ tmp = [t \in Tasks |-> NoCounters]
    /\ nupdates = [t \in Tasks |-> 0]
    /\ lock = 0
    /\ completed = 0
    /\ successful = 0
    /\ failed = 0
    /\ pdf_count = 0
    /\ total = 0
    /\ results = <<>>
    /\ collected = {}
    /\ ret = <<>>

Next ==
    \/ DownloadBatch
    \/ Submit
    \/ \E t \in Tasks : Start(t)
    \/ \E t \in Tasks : Attempt(t)
    \/ \E t \in Tasks : LockAndLoad(t)
    \/ \E t \in Tasks : StoreAndReturn(t)
    \/ \E t \in Tasks : Collect(t)
    \/ Reorder
    \/ Idle

(***************************************************************************)
(* retry.py                                                                *)
(***************************************************************************)
MaxRetriesArg == 3

MAX_RETRIES == 3
DefaultMaxRetries == 4
RetryableStatusCodes == {429, 502, 503, 504}

\* What the wrapped function can raise.  type is the exception class; an
\* HTTPError carries the status of its response, or None when it has none.
\* ConnectTimeout is both a Timeout and a ConnectionError; TooManyRedirects is
\* a requests exception that is none of the three; ValueError is not a
\* requests exception at all.
\* has_response says whether e.response is not None; status is its status_code.
Statuses == {404, 429, 500, 502, 503, 504}
NoException == [type |-> None, has_response |-> FALSE, status |-> 0]
Exceptions ==
    {[type |-> "HTTPError", has_response |-> TRUE, status |-> st] : st \in Statuses}
    \cup {[type |-> ty, has_response |-> FALSE, status |-> 0] :
            ty \in {"HTTPError", "Timeout", "ConnectionError", "ConnectTimeout",
                    "TooManyRedirects", "ValueError"}}

NoOutcome == [kind |-> "none", exc |-> NoException]

IsHTTPError(e) == e.type = "HTTPError"
IsTimeout(e) == e.type \in {"Timeout", "ConnectTimeout"}
IsConnectionError(e) == e.type \in {"ConnectionError", "ConnectTimeout"}

ShouldRetry_Always(e, status_codes) == TRUE
ShouldRetry_ResponseRequired(e, status_codes) ==
    IF IsHTTPError(e)
    THEN e.has_response /\ e.status \in status_codes
    ELSE IsTimeout(e) \/ IsConnectionError(e)
\* _should_retry
ShouldRetry(e, status_codes) ==
    IF IsHTTPError(e)
    THEN IF e.has_response THEN e.status \in status_codes ELSE TRUE
    ELSE IsTimeout(e) \/ IsConnectionError(e)

\* _get_wait_time, in tenths of a second: the base of the gradient with a
\* jitter of -10%, 0 or +10% (the ends and the middle of the uniform range)
WaitGradient == <<5, 15, 30, 45, 60>>
BaseWait(r) == IF r < Len(WaitGradient) THEN WaitGradient[r + 1]
               ELSE WaitGradient[Len(WaitGradient)]
GetWaitTimes(r) == {9 * BaseWait(r), 10 * BaseWait(r), 11 * BaseWait(r)}

\* actual_max_retries
ActualMaxRetries ==
    IF max_retries = <<>> /\ use_config THEN MAX_RETRIES
    ELSE IF max_retries # <<>> THEN max_retries[1] ELSE DefaultMaxRetries

HasBudget_OneShort(r, n) == r + 1 < n
\* `retry < actual_max_retries`
HasBudget(r, n) == r < n

\* a call of the decorated function enters the wrapper
WrapperCall ==
    /\ rpc \in {"idle", "returned", "raised"}
    /\ rpc' = "call"
    /\ retry' = 0
    /\ last_exception' = NoException
    /\ wait_time' = 0
    /\ calls' = 0
    /\ waits' = 0
    /\ outcome' = NoOutcome
    /\ UNCHANGED <<notRetry, max_retries, use_config>>

\* one pass of the loop body: func(*args, **kwargs) returns ...
InvokeReturns ==
    /\ rpc = "call"
    /\ calls' = calls + 1
    /\ rpc' = "returned"
    /\ outcome' = [kind |-> "value", exc |-> NoException]
    /\ UNCHANGED <<notRetry, max_retries, use_config, retry, last_exception, wait_time, waits>>

\* ... or raises, and the except branch decides between a wait and a re-raise
InvokeRaises ==
    /\ rpc = "call"
    /\ \E e \in Exceptions :
        /\ calls' = calls + 1
        /\ last_exception' = e
        /\ IF HasBudget(retry, ActualMaxRetries) /\ ShouldRetry(e, RetryableStatusCodes)
           THEN /\ \E w \in GetWaitTimes(retry) : wait_time' = w
                /\ rpc' = "sleep"
                /\ UNCHANGED outcome
           ELSE /\ rpc' = "raised"
                /\ outcome' = [kind |-> "exception", exc |-> e]
                /\ UNCHANGED wait_time
    /\ UNCHANGED <<notRetry, max_retries, use_config, retry, waits>>

Sleep_NoWait ==
    /\ rpc = "sleep"
    /\ retry' = retry + 1
    /\ rpc' = "call"
    /\ UNCHANGED <<notRetry, max_retries, use_config, last_exception, wait_time, calls, waits,
                   outcome>>
\* time.sleep(wait_time) returns; continue with the next value of the loop
Sleep ==
    /\ rpc = "sleep"
    /\ waits' = waits + 1
    /\ retry' = retry + 1
    /\ rpc' = "call"
    /\ UNCHANGED <<notRetry, max_retries, use_config, last_exception, wait_time, calls, outcome>>

InitRetry ==
    /\ max_retries \in {<<>>} \cup {<<n>> : n \in 0..MaxRetriesArg}
    /\ use_config \in BOOLEAN
    /\ rpc = "idle"
    /\ retry = 0
    /\ last_exception = NoException
    /\ wait_time = 0
    /\ calls = 0
    /\ waits = 0
    /\ outcome = NoOutcome

\* the wrapper at rest, for the specifications of the other components
RetryAtRest ==
    /\ max_retries = <<>>
    /\ use_config = TRUE
    /\ rpc = "idle"
    /\ retry = 0
    /\ last_exception = NoException
    /\ wait_time = 0
    /\ calls = 0
    /\ waits = 0
    /\ outcome = NoOutcome

ManagerAtRest ==
    /\ max_workers = 1
    /\ items = [kind |-> "strs", strs |-> <<>>, dicts |-> <<>>]
    /\ papers = <<>>
    /\ mpc = "idle"
    /\ submitted = 0
    /\ tpc = [t \in Tasks |-> "none"]
    /\ tloc = [t \in Tasks |-> NoLocals]
    /\ tmp = [t \in Tasks |-> NoCounters]
    /\ nupdates = [t \in Tasks |-> 0]
    /\ lock = 0
    /\ completed = 0
    /\ successful = 0
    /\ failed = 0
    /\ pdf_count = 0
    /\ total = 0
    /\ results = <<>>
    /\ collected = {}
    /\ ret = <<>>

NextRetry ==
    \/ WrapperCall
    \/ InvokeReturns
    \/ InvokeRaises
    \/ Sleep

(***************************************************************************)
(* utils/rate_limiter.py                                                   *)
(*                                                                         *)
(* Time is counted in clock ticks of 1 / (rate_limit * TicksPerInterval)   *)
(* seconds, so that min_interval = 1.0 / rate_limit is TicksPerInterval    *)
(* ticks.  The clock starts away from 0, as time.time() does, so that the  *)
(* first call of a fresh limiter (last_request_time = 0.0) does not wait.  *)
(***************************************************************************)
TicksPerInterval == 3
MaxTime == 9
MaxThreads == 2

LThreads == 1..MaxThreads
MinInterval == TicksPerInterval
StartTime == TicksPerInterval

\* lines 33-42: the clock and last_request_time are read, the wait computed
Enter(t) ==
    /\ t <= nthreads
    /\ lpc[t] = "idle"
    /\ current_time' = [current_time EXCEPT ![t] = now]
    /\ LET time_since_last == now - last_request_time
       IN IF time_since_last < MinInterval
          THEN /\ wake' = [wake EXCEPT ![t] = now + (MinInterval - time_since_last)]
               /\ lpc' = [lpc EXCEPT ![t] = "sleep"]
          ELSE /\ lpc' = [lpc EXCEPT ![t] = "update"]
               /\ UNCHANGED wake
    /\ UNCHANGED <<notLimiter, now, nthreads, last_request_time, returned>>

\* time.sleep(wait_time) returns, not before wait_time has passed
Wake(t) ==
    /\ lpc[t] = "sleep"
    /\ now >= wake[t]
    /\ lpc' = [lpc EXCEPT ![t] = "update"]
    /\ wake' = [wake EXCEPT ![t] = 0]
    /\ UNCHANGED <<notLimiter, now, nthreads, last_request_time, current_time, returned>>

\* the time that line 45 records
RecordedTime(t) == current_time[t]

\* line 45, and the return of wait_for_rate_limit
Update(t) ==
    /\ lpc[t] = "update"
    /\ last_request_time' = RecordedTime(t)
    /\ lpc' = [lpc EXCEPT ![t] = "idle"]
    /\ current_time' = [current_time EXCEPT ![t] = 0]
    /\ returned' = IF returned = <<>> THEN <<now>> ELSE <<returned[Len(returned)], now>>
    /\ UNCHANGED <<notLimiter, now, nthreads, wake>>

\* the clock advances: between calls and during sleeps; the statements of
\* wait_for_rate_limit themselves take no time
Tick ==
    /\ now < MaxTime
    /\ \A t \in LThreads : lpc[t] # "update"
    /\ now' = now + 1
    /\ UNCHANGED <<notLimiter, nthreads, last_request_time, lpc, current_time, wake,
                   returned>>

InitLimiter ==
    /\ now = StartTime
    /\ nthreads \in 1..MaxThreads
    /\ last_request_time = 0
    /\ lpc = [t \in LThreads |-> "idle"]
    /\ current_time = [t \in LThreads |-> 0]
    /\ wake = [t \in LThreads |-> 0]
    /\ returned = <<>>

LimiterAtRest ==
    /\ now = StartTime
    /\ nthreads = 1
    /\ last_request_time = 0
    /\ lpc = [t \in LThreads |-> "idle"]
    /\ current_time = [t \in LThreads |-> 0]
    /\ wake = [t \in LThreads |-> 0]
    /\ returned = <<>>

NextLimiter ==
    \/ \E t \in LThreads : Enter(t)
    \/ \E t \in LThreads : Wake(t)
    \/ \E t \in LThreads : Update(t)
    \/ Tick

(***************************************************************************)
(* utils/cache_manager.py                                                  *)
(*                                                                         *)
(* The cache directory is a map from file names to file contents.  One     *)
(* thread calls every operation of the CacheManager; when a second thread  *)
(* uses the cache too, the first calls set and get and the second get.     *)
(* set and get are split at the points where another thread's file step    *)
(* can fall in between.                                                    *)
(***************************************************************************)
MaxClock == 2

\* the thread that calls every operation, and a second thread that calls get
CThreads == {"main", "reader"}
Keys == {"a/b", "a_b"}
Values == {"v1", "v2"}
Default == "default"
\* the ttl argument: <<>> for None, <<n>> for n clock ticks
Ttls == {<<>>, <<0>>, <<1>>}

\* line 47: re.sub(r"[^\w\-_\.]", "_", str(key))
SafeKey(k) == IF k = "a/b" THEN "a_b" ELSE k
\* line 49: the MD5 digest of the key, different for different keys
KeyHash(k) == IF k = "a/b" THEN 1 ELSE 2

CacheFile_NoHash(k) == <<SafeKey(k), 0>>
\* line 50: f"{safe_key}_{key_hash}.json"
CacheFile(k) == <<SafeKey(k), KeyHash(k)>>
CacheFiles == {CacheFile(k) : k \in Keys}

\* What a file holds.  "entry" is what set writes; the other kinds are what a
\* file can hold when it was not (completely) written by set:
\*   "badjson"    text that is not JSON, an empty or cut-off file included
\*   "nonobject"  a JSON document that is not an object, such as []
\*   "badbytes"   bytes that are not UTF-8
\*   "badfield"   an object whose ttl is not a number
\*   "nodata"     an object without the keys data and ttl
Absent == [kind |-> "absent", data |-> None, timestamp |-> 0, ttl |-> <<>>]
Damaged(kind) == [kind |-> kind, data |-> None, timestamp |-> 0, ttl |-> <<>>]
DamagedKinds == {"badjson", "nonobject", "badbytes", "badfield", "nodata"}
NoCacheData == Absent
NoCacheResult == [op |-> "none", key |-> None, val |-> None, count |-> 0]
CacheResult(op, k, v) == [op |-> op, key |-> k, val |-> v, count |-> 0]

IsExpired_AtTtl(content, time) ==
    IF content.ttl = <<>> THEN FALSE
    ELSE (time - content.timestamp) >= content.ttl[1]
\* lines 222-243, for an object with a numeric or absent ttl
IsExpired(content, time) ==
    IF content.ttl = <<>> THEN FALSE
    ELSE (time - content.timestamp) > content.ttl[1]

\* What reading a file does in get (lines 92-101), by the kind of its content:
\*   "data"      the entry is returned
\*   "expired"   _is_expired is true
\*   "damaged"   json.JSONDecodeError or TypeError: the handler of line 103
\*   "error"     any other exception: the handler of line 108
\*   "default"   cache_data.get("data", default) finds no data
LoadOutcome(content, time) ==
    CASE content.kind = "absent"    -> "error"      \* FileNotFoundError
      [] content.kind = "badjson"   -> "damaged"    \* json.JSONDecodeError
      [] content.kind = "badfield"  -> "damaged"    \* TypeError in line 243
      [] content.kind = "nonobject" -> "error"      \* AttributeError in line 238
      [] content.kind = "badbytes"  -> "error"      \* UnicodeDecodeError
      [] content.kind = "nodata"    -> "default"
      [] OTHER -> IF IsExpired(content, time) THEN "expired" ELSE "data"

\* lines 125-135 of exists, by the kind of the file's content
ExistsOutcome(content, time) ==
    CASE content.kind = "absent" -> FALSE
      [] content.kind = "entry"  -> ~IsExpired(content, time)
      [] content.kind = "nodata" -> TRUE
      [] OTHER -> FALSE

Bool(b) == IF b THEN "True" ELSE "False"

Unlink(fs, f) == [fs EXCEPT ![f] = Absent]
\* a writer whose open file is unlinked keeps writing to a file that no
\* directory entry names any more
Orphaned(f) == [u \in CThreads |-> orphan[u] \/ (cpc[u] = "set_write" /\ CacheFile(ckey[u]) = f)]

\* what is known of a key after get or cleanup_expired removed its file: a
\* value promised to stay is still promised
Purged(p) == IF p \in Values THEN p ELSE "gone"

CacheIdle == \A t \in CThreads : cpc[t] = "idle"
MayCall(t) == cpc[t] = "idle" /\ (t = "main" \/ concurrent)

\* set, lines 62-68: the timestamp is taken and open(cache_file, "w") creates
\* or truncates the file
SetOpen(t, k, v, ttl) ==
    /\ t = "main"
    /\ MayCall(t)
    /\ ckey' = [ckey EXCEPT ![t] = k]
    /\ cache_data' = [cache_data EXCEPT ![t] =
           [kind |-> "entry", data |-> v, timestamp |-> cclock, ttl |-> ttl]]
    /\ files' = [files EXCEPT ![CacheFile(k)] = Damaged("badjson")]
    /\ cpc' = [cpc EXCEPT ![t] = "set_write"]
    /\ cres' = [cres EXCEPT ![t] = NoCacheResult]
    /\ promised' = [promised EXCEPT ![k] = "unknown"]
    /\ UNCHANGED <<notCache, cclock, concurrent, orphan>>

\* set, line 69 and the close of the file: the text reaches the file
SetWrite(t) ==
    /\ cpc[t] = "set_write"
    /\ files' = IF orphan[t] THEN files
                ELSE [files EXCEPT ![CacheFile(ckey[t])] = cache_data[t]]
    /\ promised' = [promised EXCEPT ![ckey[t]] =
           IF cache_data[t].ttl = <<>> THEN cache_data[t].data ELSE "unknown"]
    /\ cres' = [cres EXCEPT ![t] = CacheResult("set", ckey[t], cache_data[t].data)]
    /\ cpc' = [cpc EXCEPT ![t] = "idle"]
    /\ orphan' = [orphan EXCEPT ![t] = FALSE]
    /\ ckey' = [ckey EXCEPT ![t] = None]
    /\ cache_data' = [cache_data EXCEPT ![t] = NoCacheData]
    /\ UNCHANGED <<notCache, cclock, concurrent>>

\* get, lines 86-89
GetExists(t, k) ==
    /\ MayCall(t)
    /\ IF files[CacheFile(k)].kind = "absent"
       THEN /\ cres' = [cres EXCEPT ![t] = CacheResult("get", k, Default)]
            /\ UNCHANGED <<cpc, ckey>>
       ELSE /\ cres' = [cres EXCEPT ![t] = NoCacheResult]
            /\ ckey' = [ckey EXCEPT ![t] = k]
            /\ cpc' = [cpc EXCEPT ![t] = "get_load"]
    /\ UNCHANGED <<notCache, cclock, concurrent, files, cache_data, orphan, promised>>

\* get, lines 92-101 and the choice of the exception handler
GetLoad(t) ==
    /\ cpc[t] = "get_load"
    /\ LET content == files[CacheFile(ckey[t])]
           out == LoadOutcome(content, cclock)
       IN CASE out = "data" ->
                 /\ cres' = [cres EXCEPT ![t] = CacheResult("get", ckey[t], content.data)]
                 /\ cpc' = [cpc EXCEPT ![t] = "idle"]
                 /\ ckey' = [ckey EXCEPT ![t] = None]
            [] out \in {"error", "default"} ->
                 /\ cres' = [cres EXCEPT ![t] = CacheResult("get", ckey[t], Default)]
                 /\ cpc' = [cpc EXCEPT ![t] = "idle"]
                 /\ ckey' = [ckey EXCEPT ![t] = None]
            [] OTHER ->
                 /\ cpc' = [cpc EXCEPT ![t] = "get_delete"]
                 /\ UNCHANGED <<cres, ckey>>
    /\ UNCHANGED <<notCache, cclock, concurrent, files, cache_data, orphan, promised>>

\* get, lines 98-99 and 106-107: self.delete(key); return default
GetDelete(t) ==
    /\ cpc[t] = "get_delete"
    /\ files' = Unlink(files, CacheFile(ckey[t]))
    /\ orphan' = Orphaned(CacheFile(ckey[t]))
    /\ promised' = [promised EXCEPT ![ckey[t]] = Purged(promised[ckey[t]])]
    /\ cres' = [cres EXCEPT ![t] = CacheResult("get", ckey[t], Default)]
    /\ cpc' = [cpc EXCEPT ![t] = "idle"]
    /\ ckey' = [ckey EXCEPT ![t] = None]
    /\ UNCHANGED <<notCache, cclock, concurrent, cache_data>>

\* the operations below are called while no other thread uses the cache
Alone(t) == t = "main" /\ ~concurrent /\ MayCall(t)

\* exists, lines 122-135
CacheExists(t, k) ==
    /\ Alone(t)
    /\ cres' = [cres EXCEPT ![t] =
           CacheResult("exists", k, Bool(ExistsOutcome(files[CacheFile(k)], cclock)))]
    /\ UNCHANGED <<notCache, cclock, concurrent, files, cpc, ckey, cache_data, orphan,
                   promised>>

\* delete, lines 144-149
CacheDelete(t, k) ==
    /\ Alone(t)
    /\ files' = Unlink(files, CacheFile(k))
    /\ promised' = [promised EXCEPT ![k] = "gone"]
    /\ cres' = [cres EXCEPT ![t] = CacheResult("delete", k, None)]
    /\ UNCHANGED <<notCache, cclock, concurrent, cpc, ckey, cache_data, orphan>>

\* clear, lines 153-158
CacheClear(t) ==
    /\ Alone(t)
    /\ files' = [f \in CacheFiles |-> Absent]
    /\ promised' = [k \in Keys |-> "gone"]
    /\ cres' = [cres EXCEPT ![t] = CacheResult("clear", None, None)]
    /\ UNCHANGED <<notCache, cclock, concurrent, cpc, ckey, cache_data, orphan>>

\* lines 171-185: the files that cleanup_expired unlinks
Cleaned(fs, time) ==
    {f \in CacheFiles :
        \/ fs[f].kind = "entry" /\ IsExpired(fs[f], time)
        \/ fs[f].kind \in {"badjson", "nonobject", "badbytes", "badfield"}}

\* cleanup_expired, lines 167-193
CleanupExpired(t) ==
    /\ Alone(t)
    /\ LET cleaned == Cleaned(files, cclock)
       IN /\ files' = [f \in CacheFiles |-> IF f \in cleaned THEN Absent ELSE files[f]]
          /\ promised' = [k \in Keys |->
                 IF CacheFile(k) \in cleaned THEN Purged(promised[k]) ELSE promised[k]]
          /\ cres' = [cres EXCEPT ![t] =
                 [op |-> "cleanup_expired", key |-> None, val |-> None,
                  count |-> Cardinality(cleaned)]]
    /\ UNCHANGED <<notCache, cclock, concurrent, cpc, ckey, cache_data, orphan>>

\* something other than set writes the file of key k: a write that was cut
\* off, another program, a damaged disk
Damage(k, kind) ==
    /\ ~concurrent
    /\ CacheIdle
    /\ files' = [files EXCEPT ![CacheFile(k)] = Damaged(kind)]
    /\ promised' = [promised EXCEPT ![k] = "unknown"]
    /\ cres' = [t \in CThreads |-> NoCacheResult]
    /\ UNCHANGED <<notCache, cclock, concurrent, cpc, ckey, cache_data, orphan>>

\* time.time() advances
CacheTick ==
    /\ cclock < MaxClock
    /\ cclock' = cclock + 1
    /\ UNCHANGED <<notCache, concurrent, files, cpc, ckey, cache_data, orphan, cres,
                   promised>>

InitCache ==
    /\ cclock = 0
    /\ concurrent \in BOOLEAN
    /\ files = [f \in CacheFiles |-> Absent]
    /\ cpc = [t \in CThreads |-> "idle"]
    /\ ckey = [t \in CThreads |-> None]
    /\ cache_data = [t \in CThreads |-> NoCacheData]
    /\ orphan = [t \in CThreads |-> FALSE]
    /\ cres = [t \in CThreads |-> NoCacheResult]
    /\ promised = [k \in Keys |-> "gone"]

CacheAtRest ==
    /\ cclock = 0
    /\ concurrent = FALSE
    /\ files = [f \in CacheFiles |-> Absent]
    /\ cpc = [t \in CThreads |-> "idle"]
    /\ ckey = [t \in CThreads |-> None]
    /\ cache_data = [t \in CThreads |-> NoCacheData]
    /\ orphan = [t \in CThreads |-> FALSE]
    /\ cres = [t \in CThreads |-> NoCacheResult]
    /\ promised = [k \in Keys |-> "gone"]

NextCache ==
    \/ \E t \in CThreads, k \in Keys, v \in Values, ttl \in Ttls : SetOpen(t, k, v, ttl)
    \/ \E t \in CThreads : SetWrite(t)
    \/ \E t \in CThreads, k \in Keys : GetExists(t, k)
    \/ \E t \in CThreads : GetLoad(t)
    \/ \E t \in CThreads : GetDelete(t)
    \/ \E t \in CThreads, k \in Keys : CacheExists(t, k)
    \/ \E t \in CThreads, k \in Keys : CacheDelete(t, k)
    \/ \E t \in CThreads : CacheClear(t)
    \/ \E t \in CThreads : CleanupExpired(t)
    \/ \E k \in Keys, kind \in DamagedKinds : Damage(k, kind)
    \/ CacheTick

(***************************************************************************)
(* The PMID-to-PMCID resolver, PMCIDRetriever.process_papers.               *)
(*                                                                         *)
(* The PMIDs collected from the papers are distinct and numbered 1..N in   *)
(* input order.  The summary API answers for a PMID from some round on     *)
(* (or never): a call made in round r returns the PMCID of the PMIDs it    *)
(* carries that the API can answer in round r.  A transport failure of a   *)
(* call is the case where it answers for none of them.                     *)
(***************************************************************************)
MaxPmids == 4
\* the batch size; stands for the 50 PMIDs the summary endpoint takes
BatchSize == 2
\* the cap on resolution rounds
MaxRounds == 3

Pmids == 1..MaxPmids
Never == MaxRounds + 1

\* the PMIDs of `ids` that have no PMCID yet, in the order of ids
Unresolved_All(ids, map) == ids
Unresolved(ids, map) == SelectSeq(ids, LAMBDA p : map[p] = 0)

FirstBatch_Whole(ids) == ids
\* the first batch of a list of PMIDs
FirstBatch(ids) ==
    SubSeq(ids, 1, IF Len(ids) < BatchSize THEN Len(ids) ELSE BatchSize)

\* what the API returns for a batch in round r: the PMIDs it answers for
Response(batch, r) == {batch[i] : i \in {j \in 1..Len(batch) : avail[batch[j]] <= r}}

MoreRounds_WhileProgress(r, todo, progressed) ==
    r < MaxRounds /\ todo # <<>> /\ (r = 0 \/ progressed)
\* whether another round is started after r rounds
MoreRounds(r, todo, progressed) == r < MaxRounds /\ todo # <<>>

\* process_papers is called: the PMIDs are collected
ProcessPapers ==
    /\ ppc = "idle"
    /\ ppc' = "loop"
    /\ UNCHANGED <<notResolver, pmids, avail, pround, queue, pmcid_map, api_calls,
                   progress>>

\* a round starts: the PMIDs to submit are the unresolved ones
StartRound ==
    /\ ppc = "loop"
    /\ MoreRounds(pround, Unresolved(pmids, pmcid_map), progress)
    /\ pround' = pround + 1
    /\ queue' = Unresolved(pmids, pmcid_map)
    /\ progress' = FALSE
    /\ ppc' = "fetch"
    /\ UNCHANGED <<notResolver, pmids, avail, pmcid_map, api_calls>>

\* one call of the summary endpoint, and the merge of what it returned
FetchPmcidBatch ==
    /\ ppc = "fetch"
    /\ queue # <<>>
    /\ LET batch == FirstBatch(queue)
           found == Response(batch, pround)
       IN /\ api_calls' = Append(api_calls, [round |-> pround, ids |-> batch])
          /\ pmcid_map' = [p \in Pmids |-> IF p \in found THEN pround ELSE pmcid_map[p]]
          /\ progress' = (progress \/ \E p \in found : pmcid_map[p] = 0)
          /\ queue' = SubSeq(queue, Len(batch) + 1, Len(queue))
          /\ ppc' = IF Len(batch) = Len(queue) THEN "loop" ELSE "fetch"
    /\ UNCHANGED <<notResolver, pmids, avail, pround>>

\* no further round: process_papers returns the papers with the PMCIDs found
ReturnPapers ==
    /\ ppc = "loop"
    /\ ~MoreRounds(pround, Unresolved(pmids, pmcid_map), progress)
    /\ ppc' = "done"
    /\ UNCHANGED <<notResolver, pmids, avail, pround, queue, pmcid_map, api_calls,
                   progress>>

InitResolver ==
    /\ \E n \in 0..MaxPmids :
          /\ pmids = [i \in 1..n |-> i]
          /\ avail \in [Pmids -> 1..Never]
          /\ \A p \in Pmids : p > n => avail[p] = Never
    /\ ppc = "idle"
    /\ pround = 0
    /\ queue = <<>>
    /\ pmcid_map = [p \in Pmids |-> 0]
    /\ api_calls = <<>>
    /\ progress = FALSE

ResolverAtRest ==
    /\ pmids = <<>>
    /\ avail = [p \in Pmids |-> Never]
    /\ ppc = "idle"
    /\ pround = 0
    /\ queue = <<>>
    /\ pmcid_map = [p \in Pmids |-> 0]
    /\ api_calls = <<>>
    /\ progress = FALSE

NextResolver ==
    \/ ProcessPapers
    \/ StartRound
    \/ FetchPmcidBatch
    \/ ReturnPapers

(***************************************************************************)
(* doi_converter.py and IdentifierUtils.validate_doi                       *)
(*                                                                         *)
(* A DOI is a string, written as the sequence of its characters.  A call   *)
(* of doi_to_pmcid that has to query goes through its queries step by      *)
(* step: the rate limiter, each session.get, each wait of the retry        *)
(* wrapper.                                                                *)
(***************************************************************************)
DoiInputs ==
    { <<"1", "0", ".", "1", "2", "/", "a", "b", "c">>,        \* 10.12/abc
      <<"1", "0", ".", "3", "4", "/", "x", "y", "z">>,        \* 10.34/xyz
      <<" ", "1", "0", ".", "1", "2", "/", "a", "b", "c">>,   \* 10.12/abc after a blank
      <<>>,                                                   \* the empty string
      <<"1", "1", ".", "1", "2", "/", "a", "b", "c">>,        \* 11.12/abc
      <<"1", "0", ".", "1", "2", "-", "a", "b", "c">>,        \* 10.12-abc
      <<"1", "0", ".", "1", "/", "a", "b">>,                  \* 10.1/ab
      <<"1", "0", ".", "a", "b", "/", "c", "d", "e">> }       \* 10.ab/cde
Digits == {"0", "1", "2", "3", "4", "5", "6", "7", "8", "9"}
Whitespace == {" "}

RECURSIVE LStrip(_)
LStrip(s) == IF s # <<>> /\ Head(s) \in Whitespace THEN LStrip(Tail(s)) ELSE s
RECURSIVE RStrip(_)
RStrip(s) ==
    IF s # <<>> /\ s[Len(s)] \in Whitespace THEN RStrip(SubSeq(s, 1, Len(s) - 1)) ELSE s
\* str.strip()
Strip(s) == RStrip(LStrip(s))

StartsWith(s, prefix) == Len(s) >= Len(prefix) /\ SubSeq(s, 1, Len(prefix)) = prefix
Contains(s, c) == \E i \in 1..Len(s) : s[i] = c
\* re.match(r"^10\.\d+/.+$", s)
MatchesDoiPattern(s) ==
    /\ StartsWith(s, <<"1", "0", ".">>)
    /\ \E k \in 4..Len(s) :
          /\ \A i \in 4..k : s[i] \in Digits
          /\ k + 2 <= Len(s)
          /\ s[k + 1] = "/"

MinDoiLength == 8

ValidateDoi_NoMinLength(doi) ==
    /\ doi # <<>>
    /\ StartsWith(Strip(doi), <<"1", "0", ".">>)
    /\ Contains(Strip(doi), "/")
    /\ MatchesDoiPattern(Strip(doi))
\* IdentifierUtils.validate_doi
ValidateDoi(doi) ==
    /\ doi # <<>>
    /\ LET d == Strip(doi)
       IN /\ ~(~StartsWith(d, <<"1", "0", ".">>) \/ ~Contains(d, "/") \/ Len(d) < MinDoiLength)
          /\ MatchesDoiPattern(d)

DOI_USE_FALLBACK == TRUE
NotCached == "absent"
ApiPmcids == {"PMC1", "PMC2"}
NoDoiCall == [doi |-> <<>>, result |-> None, requests |-> 0, waits |-> 0, repeat |-> FALSE]

\* retry_with_backoff(max_retries=3), line 345
MaxRequestRetries == 3
Stages == {"doi", "crossref", "title"}

\* What session.get does with a request: it raises, or it returns the
\* response whatever its status (the converter never calls raise_for_status,
\* so no HTTPError comes out of _request).  The body of a 200 response is
\* reduced to what the parsing finds in it: for the two Europe PMC queries the
\* PMCID of the matching result or None, for CrossRef "title" when the message
\* has a non-empty title, else None.
SessionExceptions == {e \in Exceptions : e.type \notin {"HTTPError", "ValueError"}}
Bodies(stage) == IF stage = "crossref" THEN {"title", None} ELSE ApiPmcids \cup {None}
NoResponse == [kind |-> "none", status |-> 0, body |-> None, exc |-> NoException]
Responses(stage) ==
    {[kind |-> "response", status |-> 200, body |-> b, exc |-> NoException] : b \in Bodies(stage)}
    \cup {[kind |-> "response", status |-> st, body |-> None, exc |-> NoException] :
            st \in Statuses}
RaisedBy(e) == [kind |-> "exception", status |-> 0, body |-> None, exc |-> e]

\* what a query method makes of the value of _make_request_with_retry:
\* `if response and response.status_code == 200` parses the body, everything
\* else (another status, or None after a failure) gives None
StageResult(resp) ==
    IF resp.kind = "response" /\ resp.status = 200 THEN resp.body ELSE None

CacheResultOf_SuccessOnly(cache, doi, pmcid) ==
    IF Truthy(pmcid) THEN [cache EXCEPT ![doi] = pmcid] ELSE cache
\* lines 98, 107 and 114: the result is cached, None included
CacheResultOf(cache, doi, pmcid) == [cache EXCEPT ![doi] = pmcid]

Remember(doi, result) ==
    [first_result EXCEPT ![doi] = IF @ = "unknown" THEN result ELSE @]

\* doi_to_pmcid, lines 69-91: validation, the cache, and the entry into
\* _query_europepmc_doi
DoiToPmcid(doi, use_fallback) ==
    /\ dpc = "idle"
    /\ dfallback' = use_fallback
    /\ dresp' = NoResponse
    /\ dwaited' = FALSE
    /\ IF ~ValidateDoi(doi)
       THEN /\ dlast' = [doi |-> doi, result |-> None, requests |-> 0, waits |-> 0,
                         repeat |-> FALSE]
            /\ UNCHANGED <<doi_cache, first_result, no_fallback, dpc, dstage, dretry>>
       ELSE IF doi_cache[doi] # NotCached
       THEN /\ dlast' = [doi |-> doi, result |-> doi_cache[doi], requests |-> 0,
                         waits |-> 0, repeat |-> first_result[doi] # "unknown"]
            /\ first_result' = Remember(doi, doi_cache[doi])
            /\ UNCHANGED <<doi_cache, no_fallback, dpc, dstage, dretry>>
       ELSE /\ dlast' = [doi |-> doi, result |-> None, requests |-> 0, waits |-> 0,
                         repeat |-> first_result[doi] # "unknown"]
            /\ dstage' = "doi"
            /\ dpc' = "wait"
            /\ UNCHANGED <<doi_cache, first_result, no_fallback, dretry>>
    /\ UNCHANGED notConverter

\* self.doi_rate_limiter.wait_for_rate_limit(), lines 128, 204 and 271, and
\* the entry into _make_request_with_retry
WaitForRateLimit ==
    /\ dpc = "wait"
    /\ dlast' = [dlast EXCEPT !.waits = @ + 1]
    /\ dwaited' = TRUE
    /\ dretry' = 0
    /\ dpc' = "send"
    /\ UNCHANGED <<notConverter, doi_cache, first_result, no_fallback, dstage, dfallback, dresp>>

\* lines 98-99, 107-108 and 114-115: cache the result and return it
Conclude(result) ==
    /\ doi_cache' = CacheResultOf(doi_cache, dlast.doi, result)
    /\ first_result' = Remember(dlast.doi, result)
    /\ no_fallback' = [no_fallback EXCEPT ![dlast.doi] = ~Truthy(result) /\ ~dfallback]
    /\ dlast' = [dlast EXCEPT !.result = result, !.requests = @ + 1]
    /\ dpc' = "idle"
    /\ dstage' = "none"
    /\ dretry' = 0

\* the next query of the chain
EnterQuery(stage) ==
    /\ dstage' = stage
    /\ dpc' = "wait"
    /\ dretry' = 0
    /\ dlast' = [dlast EXCEPT !.requests = @ + 1]
    /\ UNCHANGED <<doi_cache, first_result, no_fallback>>

UseFallback_Always(use_fallback) == TRUE
\* line 102: `use_fallback and DOI_USE_FALLBACK`
UseFallback(use_fallback) == use_fallback /\ DOI_USE_FALLBACK

\* a query method returns `value`: lines 97-108 for _query_europepmc_doi,
\* lines 246-254 for the CrossRef message, lines 106-115 for the value that
\* _query_crossref_api hands down from _query_europepmc_by_title
StageReturns(value) ==
    CASE dstage = "doi" ->
            IF Truthy(value) THEN Conclude(value)
            ELSE IF UseFallback(dfallback) THEN EnterQuery("crossref")
            ELSE Conclude(None)
      [] dstage = "crossref" ->
            IF value = "title" THEN EnterQuery("title") ELSE Conclude(None)
      [] OTHER ->
            IF Truthy(value) THEN Conclude(value) ELSE Conclude(None)

\* _request, line 349: session.get returns a response, which the wrapper
\* hands to the query method
SendReturns ==
    /\ dpc = "send"
    /\ \E resp \in Responses(dstage) :
          /\ dresp' = resp
          /\ StageReturns(StageResult(resp))
    /\ dwaited' = FALSE
    /\ UNCHANGED <<notConverter, dfallback>>

\* ... or session.get raises: the wrapper waits and calls _request again
\* (retry.py lines 52-70), or gives up, and then _make_request_with_retry
\* returns None (lines 353-355)
SendRaises ==
    /\ dpc = "send"
    /\ \E e \in SessionExceptions :
          /\ dresp' = RaisedBy(e)
          /\ IF HasBudget(dretry, MaxRequestRetries) /\ ShouldRetry(e, RetryableStatusCodes)
             THEN /\ dpc' = "sleep"
                  /\ dlast' = [dlast EXCEPT !.requests = @ + 1]
                  /\ UNCHANGED <<doi_cache, first_result, no_fallback, dstage, dretry>>
             ELSE StageReturns(StageResult(NoResponse))
    /\ dwaited' = FALSE
    /\ UNCHANGED <<notConverter, dfallback>>

\* retry.py lines 69-70: time.sleep(wait_time), then the next attempt
RetrySleep ==
    /\ dpc = "sleep"
    /\ dretry' = dretry + 1
    /\ dpc' = "send"
    /\ UNCHANGED <<notConverter, doi_cache, first_result, no_fallback, dlast, dstage,
                   dfallback, dresp, dwaited>>

\* clear_cache, lines 357-360
ClearCache ==
    /\ dpc = "idle"
    /\ doi_cache' = [d \in DoiInputs |-> NotCached]
    /\ first_result' = [d \in DoiInputs |-> "unknown"]
    /\ no_fallback' = [d \in DoiInputs |-> FALSE]
    /\ UNCHANGED <<notConverter, dlast, dpc, dstage, dretry, dfallback, dresp, dwaited>>

InitConverter ==
    /\ doi_cache = [d \in DoiInputs |-> NotCached]
    /\ first_result = [d \in DoiInputs |-> "unknown"]
    /\ no_fallback = [d \in DoiInputs |-> FALSE]
    /\ dlast = NoDoiCall
    /\ dpc = "idle"
    /\ dstage = "none"
    /\ dretry = 0
    /\ dfallback = TRUE
    /\ dresp = NoResponse
    /\ dwaited = FALSE

ConverterAtRest == InitConverter

NextConverter ==
    \/ \E doi \in DoiInputs, use_fallback \in BOOLEAN : DoiToPmcid(doi, use_fallback)
    \/ WaitForRateLimit
    \/ SendReturns
    \/ SendRaises
    \/ RetrySleep
    \/ ClearCache

(***************************************************************************)
(* IdentifierUtils.detect_identifier_type and normalize_pmcid              *)
(*                                                                         *)
(* The inputs are strings put together from an optional blank, a head, a   *)
(* run of digits, a tail and an optional blank, so that every shape the    *)
(* functions tell apart occurs with each length around its limits.         *)
(***************************************************************************)
MaxDigits == 11

Heads == { <<>>, <<"P", "M", "C">>, <<"p", "m", "c">>, <<"P", "m", "C">>, <<"P", "M">>,
           <<"1", "0", ".">>, <<"1", "0">> }
Tails == { <<>>, <<"/">>, <<"/", "a">>, <<"a">>, <<" ", "/", "a">> }
Pads == { <<>>, <<" ">> }
DigitRun(n) == [i \in 1..n |-> "1"]
Identifiers ==
    {l \o h \o DigitRun(n) \o t \o r :
        l \in Pads, h \in Heads, n \in 0..MaxDigits, t \in Tails, r \in Pads}

\* str.lower(), on the letters of the inputs
LowerChar(c) == CASE c = "P" -> "p" [] c = "M" -> "m" [] c = "C" -> "c" [] OTHER -> c
Lower(s) == [i \in 1..Len(s) |-> LowerChar(s[i])]
\* str.isdigit(): not empty and digits only
IsDigit(s) == s # <<>> /\ \A i \in 1..Len(s) : s[i] \in Digits
\* identifier[3:]
From4(s) == SubSeq(s, 4, Len(s))

PMCID_MAX_DIGITS == 8
PMID_MIN_DIGITS == 6
PMID_MAX_DIGITS == 10
DOI_MIN_LENGTH == 8

\* detect_identifier_type, lines 31-51
DetectIdentifierType(raw) ==
    IF raw = <<>> THEN "unknown"
    ELSE LET s == Strip(raw)
         IN IF /\ StartsWith(Lower(s), <<"p", "m", "c">>)
               /\ IsDigit(From4(s))
               /\ 1 <= Len(From4(s)) /\ Len(From4(s)) <= PMCID_MAX_DIGITS
            THEN "pmcid"
            ELSE IF StartsWith(s, <<"1", "0", ".">>) /\ Contains(s, "/") /\ Len(s) > DOI_MIN_LENGTH
            THEN "doi"
            ELSE IF IsDigit(s) /\ PMID_MIN_DIGITS <= Len(s) /\ Len(s) <= PMID_MAX_DIGITS
            THEN "pmid"
            ELSE "unknown"

\* lines 70-71
WithoutPrefix(s) == IF StartsWith(Lower(s), <<"p", "m", "c">>) THEN From4(s) ELSE s

\* Python's None where a string is expected: the empty sequence, which none
\* of the strings these functions return is
NoString == <<>>

NormalizePmcid_KeepPrefix(raw) ==
    IF raw = <<>> THEN NoString
    ELSE LET s == WithoutPrefix(Strip(raw))
         IN IF IsDigit(s) /\ 1 <= Len(s) /\ Len(s) <= PMCID_MAX_DIGITS
            THEN <<"P", "M", "C">> \o s ELSE NoString
\* normalize_pmcid, lines 64-77
NormalizePmcid(raw) ==
    IF raw = <<>> THEN NoString
    ELSE LET s == WithoutPrefix(Strip(raw))
         IN IF IsDigit(s) /\ 1 <= Len(s) /\ Len(s) <= PMCID_MAX_DIGITS THEN s ELSE NoString

Detect ==
    /\ detected = "unset"
    /\ detected' = DetectIdentifierType(input)
    /\ UNCHANGED <<notIdentifier, input, normalized>>

Normalize ==
    /\ normalized = <<>>
    /\ normalized' = <<NormalizePmcid(input)>>
    /\ UNCHANGED <<notIdentifier, input, detected>>

InitIdentifier ==
    /\ input \in Identifiers
    /\ detected = "unset"
    /\ normalized = <<>>

IdentifierAtRest ==
    /\ input = <<>>
    /\ detected = "unset"
    /\ normalized = <<>>

NextIdentifier ==
    \/ Detect
    \/ Normalize

(***************************************************************************)
(* The specifications                                                      *)
(***************************************************************************)
Init == InitManager /\ RetryAtRest /\ LimiterAtRest /\ CacheAtRest /\ ResolverAtRest
           /\ ConverterAtRest /\ IdentifierAtRest
Spec == Init /\ [][Next]_vars

InitR == InitRetry /\ ManagerAtRest /\ LimiterAtRest /\ CacheAtRest /\ ResolverAtRest
           /\ ConverterAtRest /\ IdentifierAtRest
SpecRetry == InitR /\ [][NextRetry]_vars

InitL == InitLimiter /\ ManagerAtRest /\ RetryAtRest /\ CacheAtRest /\ ResolverAtRest
           /\ ConverterAtRest /\ IdentifierAtRest
SpecRL == InitL /\ [][NextLimiter]_vars

InitC == InitCache /\ ManagerAtRest /\ RetryAtRest /\ LimiterAtRest /\ ResolverAtRest
           /\ ConverterAtRest /\ IdentifierAtRest
SpecCache == InitC /\ [][NextCache]_vars

InitP == InitResolver /\ ManagerAtRest /\ RetryAtRest /\ LimiterAtRest /\ CacheAtRest
           /\ ConverterAtRest /\ IdentifierAtRest
SpecResolver == InitP /\ [][NextResolver]_vars

InitD == InitConverter /\ ManagerAtRest /\ RetryAtRest /\ LimiterAtRest /\ CacheAtRest
           /\ ResolverAtRest /\ IdentifierAtRest
SpecConverter == InitD /\ [][NextConverter]_vars

InitI == InitIdentifier /\ ManagerAtRest /\ RetryAtRest /\ LimiterAtRest /\ CacheAtRest
           /\ ResolverAtRest /\ ConverterAtRest
SpecIdentifier == InitI /\ [][NextIdentifier]_vars

(***************************************************************************)
(* Properties of download_batch                                            *)
(***************************************************************************)
HasIdentifier(p) == Truthy(Or(p.doi, p.pmcid))
Returned == mpc = "done"
\* download_batch returned through _download_concurrent
ReturnedFromPool == mpc = "done" /\ ~ReturnsEarly(items)
Raised(t) == tloc[t].result.error = "exc"
\* no collected result is filed under the identifier of paper i
IdentifierAbsent(i) ==
    /\ HasIdentifier(papers[i])
    /\ \A k \in 1..Len(results) : ResultKey(results[k]) # Or(papers[i].doi, papers[i].pmcid)
IsNotFound(r) == r.success = FALSE /\ r.error = "Not found"
\* result r is about paper p: same doi, or same pmcid when p has no doi
BelongsTo(r, p) == IF Truthy(p.doi) THEN r.doi = p.doi ELSE r.pmcid = p.pmcid

\* C1: for a non-empty input in which some item carries a doi or pmcid,
\* download_batch returns len(items) results and the i-th belongs to items[i].
ClaimC1 ==
    (Returned /\ InputLen(items) > 0
              /\ \E i \in 1..Len(papers) : HasIdentifier(papers[i]))
    => /\ Len(ret) = InputLen(items)
       /\ \A i \in 1..InputLen(items) : i <= Len(ret) /\ BelongsTo(ret[i], papers[i])

\* C2: when the identifier of an item is absent from the collected results, the
\* returned list still has one result per input item, the item's slot is the
\* synthesized "Not found" failure, and every other item whose identifier was
\* collected has its own task's result in its slot.
ClaimC2 ==
    ReturnedFromPool =>
        \A i \in 1..Len(papers) :
            IdentifierAbsent(i) =>
                /\ Len(ret) = Len(papers)
                /\ IsNotFound(ret[i])
                /\ \A j \in 1..Len(papers) :
                       (j # i /\ ~IdentifierAbsent(j)) => ret[j].src = j

\* C3: when the task of an item raised, download_batch still returned, that
\* item's slot is a failed result, and every other item whose task did not
\* raise finished and has its task's result, unchanged, in its slot.
ClaimC3 ==
    ReturnedFromPool =>
        \A i \in 1..Len(papers) :
            Raised(i) =>
                /\ i <= Len(ret)
                /\ ret[i].success = FALSE
                /\ \A j \in 1..Len(papers) :
                       (j # i /\ ~Raised(j)) =>
                           /\ tpc[j] = "finished"
                           /\ j <= Len(ret)
                           /\ ret[j] = tloc[j].result

\* C4: the progress update of a task runs under the lock, every task performs
\* it exactly once and none is lost: at every moment completed counts the
\* updates performed, and when download_batch returns completed = total =
\* the number of submitted tasks, successful + failed = total, successful
\* counts the successes and pdf_count the successes that have a path.
ClaimC4 ==
    /\ \A t \in Tasks : tpc[t] = "locked" => lock = t
    /\ (mpc \in {"submit", "collect"} \/ ReturnedFromPool) =>
          completed = Cardinality({t \in Tasks : nupdates[t] >= 1})
    /\ ReturnedFromPool =>
          /\ \A t \in 1..Len(papers) : nupdates[t] = 1
          /\ completed = total
          /\ total = submitted
          /\ submitted = Len(papers)
          /\ successful + failed = total
          /\ successful = Cardinality({t \in 1..Len(papers) : tloc[t].result.success})
          /\ pdf_count = Cardinality({t \in 1..Len(papers) :
                             tloc[t].result.success /\ Truthy(tloc[t].result.path)})

WitnessC4 ==
    /\ ReturnedFromPool
    /\ max_workers = 2
    /\ completed = 2
    /\ successful = 2
    /\ pdf_count = 1

\* C5: when no input item carries a non-empty doi or pmcid, download_batch
\* returns [] and has submitted no task to the pool.
ClaimC5 ==
    (Returned /\ \A i \in 1..Len(papers) : ~HasIdentifier(papers[i]))
    => ret = <<>> /\ submitted = 0

\* C6: at most max_workers tasks are past pending and not yet terminal, and
\* with max_workers = 1 a task does not start before its predecessor in the
\* input order is terminal.
ClaimC6 ==
    /\ Cardinality({t \in Tasks : Running(t)}) <= max_workers
    /\ max_workers = 1 =>
          \A t \in Tasks :
              (t + 1 \in Tasks /\ tpc[t + 1] \notin {"none", "pending"})
              => tpc[t] = "finished"

WitnessC6 ==
    /\ max_workers = 1
    /\ tpc[1] = "finished"
    /\ tpc[2] = "running"
    /\ mpc = "collect"

(***************************************************************************)
(* Properties of retry_with_backoff                                        *)
(***************************************************************************)
\* the failures the retry policy is documented to retry
ClaimedRetryable(e) ==
    \/ IsTimeout(e)
    \/ IsConnectionError(e)
    \/ IsHTTPError(e) /\ e.has_response /\ e.status \in {429, 502, 503, 504}
HTTPErrorWithoutResponse(e) == IsHTTPError(e) /\ ~e.has_response
\* failures the policy must not retry: an HTTP error whose response has another
\* status, and exceptions that are no timeout, connection or HTTP error
NonRetryable(e) ==
    \/ IsHTTPError(e) /\ e.has_response /\ e.status \notin {429, 502, 503, 504}
    \/ e.type \in {"TooManyRedirects", "ValueError"}
Raises(e) == outcome = [kind |-> "exception", exc |-> e]

\* C7: the wrapped function is never invoked more than max_retries + 1 times;
\* when the wrapper gives up on a retryable error (every earlier call raised
\* one too, or it would not have been retried) the function has been invoked
\* exactly max_retries + 1 times, with a wait between consecutive calls, and
\* that last exception is what the caller gets; the wrapper returns normally
\* only when a call of the function returned.
ClaimC7 ==
    /\ calls <= ActualMaxRetries + 1
    /\ (rpc = "raised"
        /\ (ClaimedRetryable(last_exception) \/ HTTPErrorWithoutResponse(last_exception)))
       => /\ calls = ActualMaxRetries + 1
          /\ waits = ActualMaxRetries
          /\ Raises(last_exception)
    /\ rpc = "returned" => (outcome.kind = "value" /\ calls = waits + 1)

WitnessC7 ==
    /\ rpc = "raised"
    /\ max_retries = <<2>>
    /\ calls = 3
    /\ waits = 2
    /\ last_exception.type = "Timeout"

\* C8: when a call raises a non-retryable error the wrapper re-raises it at
\* once: no wait follows it and no further attempt; raised by the first call,
\* it leaves the function invoked exactly once with no wait at all.
ClaimC8 ==
    NonRetryable(last_exception)
    => /\ rpc = "raised"
       /\ Raises(last_exception)
       /\ waits = calls - 1
       /\ retry = 0 => (calls = 1 /\ waits = 0)

WitnessC8 ==
    /\ rpc = "raised"
    /\ max_retries = <<3>>
    /\ calls = 1
    /\ waits = 0
    /\ last_exception = [type |-> "HTTPError", has_response |-> TRUE, status |-> 404]

\* the wrapper has just handled an exception with retries left
HandledWithBudget ==
    /\ rpc \in {"sleep", "raised"}
    /\ last_exception # NoException
    /\ retry < ActualMaxRetries

\* C9 as claimed: with retries left, a failure is retried iff it is a timeout,
\* a connection failure or an HTTP error with a status in {429, 502, 503, 504}.
ClaimC9Original ==
    HandledWithBudget => ((rpc = "sleep") <=> ClaimedRetryable(last_exception))

\* C9 as amended: ... or an HTTPError that carries no response.
ClaimC9 ==
    HandledWithBudget =>
        ((rpc = "sleep") <=> (\/ ClaimedRetryable(last_exception)
                              \/ HTTPErrorWithoutResponse(last_exception)))

WitnessC9 ==
    /\ rpc = "sleep"
    /\ HTTPErrorWithoutResponse(last_exception)
    /\ calls = 1

(***************************************************************************)
(* Properties of RateLimiter                                               *)
(***************************************************************************)
\* C10: with one thread calling, two consecutive calls of wait_for_rate_limit
\* return at least 1/rate_limit seconds apart.
ClaimC10 ==
    (nthreads = 1 /\ Len(returned) = 2) => returned[2] - returned[1] >= MinInterval

InSection(t) == lpc[t] # "idle"

\* C11: concurrent callers of wait_for_rate_limit on one RateLimiter are
\* serialized: never two of them between the read of last_request_time and
\* its update, and no two of them return less than 1/rate_limit seconds
\* apart.
ClaimC11 ==
    /\ \A t, u \in LThreads : (InSection(t) /\ InSection(u)) => t = u
    /\ (nthreads > 1 /\ Len(returned) = 2) =>
          returned[2] - returned[1] >= MinInterval

(***************************************************************************)
(* Properties of CacheManager                                              *)
(***************************************************************************)
FileOf(t) == files[CacheFile(ckey[t])]
\* the step in which get reads the file of its key
GetReads(t) == cpc[t] = "get_load" /\ cpc'[t] # "get_load"
GetPurges(t) == cpc[t] = "get_delete" /\ cpc'[t] # "get_delete"
LastOp == cres["main"]
Sequential == ~concurrent /\ CacheIdle
ValidEntry(content, time) ==
    /\ content.kind = "entry"
    /\ content.ttl = <<>> \/ (time - content.timestamp) <= content.ttl[1]

\* a key whose entry the cache removed reads as absent
GoneReadsAbsent ==
    (Sequential /\ LastOp.op \in {"get", "exists"} /\ promised[LastOp.key] = "gone") =>
        LastOp.val = (IF LastOp.op = "get" THEN Default ELSE "False")

\* C12: get returns the stored value exactly when the entry exists and has
\* ttl = null or now - timestamp <= ttl; for an expired entry get deletes the
\* entry and returns the default, and the key then reads as absent (get
\* returns the default, exists returns false) until the next set.
ClaimC12 ==
    /\ [][\A t \in CThreads : (~concurrent /\ GetReads(t) /\ FileOf(t).kind = "entry") =>
             IF ValidEntry(FileOf(t), cclock)
             THEN /\ cres'[t] = CacheResult("get", ckey[t], FileOf(t).data)
                  /\ files' = files
             ELSE cpc'[t] = "get_delete"]_vars
    /\ [][\A t \in CThreads : (~concurrent /\ GetPurges(t)) =>
             /\ files'[CacheFile(ckey[t])] = Absent
             /\ cres'[t] = CacheResult("get", ckey[t], Default)]_vars
    /\ [][\A k \in Keys :
             (~concurrent /\ files[CacheFile(k)] = Absent /\ files'[CacheFile(k)] # Absent) =>
                 \/ cpc'["main"] = "set_write" /\ ckey'["main"] = k
                 \/ cpc' = cpc /\ files'[CacheFile(k)].kind \in DamagedKinds]_vars
    /\ []GoneReadsAbsent

WitnessC12 ==
    /\ ~concurrent
    /\ cpc["main"] = "get_delete"
    /\ FileOf("main").kind = "entry"
    /\ FileOf("main").ttl = <<1>>

Corrupted(content) == content.kind \in {"badjson", "nonobject", "badbytes", "badfield"}

\* C13: after get(k) has found the stored entry of k corrupted or unreadable,
\* it has returned the default and the corrupt entry is deleted.
ClaimC13 ==
    (Sequential /\ LastOp.op = "get") =>
        /\ ~Corrupted(files[CacheFile(LastOp.key)])
        /\ files[CacheFile(LastOp.key)].kind # "entry" => LastOp.val = Default

\* C14: when a get and a set of the same key run in two threads, get returns
\* a stored value or the default, and once both have finished the entry
\* that set wrote is in the cache.
ClaimC14 ==
    /\ \A t \in CThreads : cres[t].op = "get" => cres[t].val \in Values \cup {Default}
    /\ (concurrent /\ CacheIdle /\ LastOp.op = "set" /\ promised[LastOp.key] \in Values) =>
          /\ files[CacheFile(LastOp.key)].kind = "entry"
          /\ files[CacheFile(LastOp.key)].data = LastOp.val

\* C15: get(k) returns the value of the last set(k, v) without ttl until the
\* next set(k), delete(k) or clear(), whatever is done to other keys;
\* after delete(k) or clear(), get(k) returns the default and exists(k) is
\* false; delete of an absent key changes nothing.
ClaimC15 ==
    /\ [](\A k \in Keys :
            (Sequential /\ LastOp.key = k /\ promised[k] \in Values) =>
                /\ LastOp.op = "get" => LastOp.val = promised[k]
                /\ LastOp.op = "exists" => LastOp.val = "True")
    /\ [](Sequential /\ LastOp.op \in {"delete", "clear"} =>
            \A k \in Keys : (LastOp.op = "clear" \/ LastOp.key = k) =>
                /\ files[CacheFile(k)] = Absent
                /\ promised[k] = "gone")
    /\ []GoneReadsAbsent
    /\ [][\A k \in Keys :
            (cres["main"] # cres'["main"] /\ cres'["main"] = CacheResult("delete", k, None)
                /\ files[CacheFile(k)] = Absent) => files' = files]_vars

WitnessC15 ==
    /\ Sequential
    /\ LastOp = CacheResult("get", "a/b", "v1")
    /\ promised["a/b"] = "v1"
    /\ files[CacheFile("a_b")].kind = "entry"
    /\ files[CacheFile("a_b")].data = "v2"

(***************************************************************************)
(* Properties of the PMID-to-PMCID resolver                                *)
(***************************************************************************)
N == Len(pmids)
CeilDiv(a, b) == (a + b - 1) \div b
Max(S) == IF S = {} THEN 0 ELSE CHOOSE x \in S : \A y \in S : y <= x
Min2(a, b) == IF a < b THEN a ELSE b
ResolverDone == ppc = "done"
ResolvesAllWithinCap == \A p \in 1..N : avail[p] <= MaxRounds
\* the first round after which the API has answered for every PMID
ConvergenceRound == Max({avail[p] : p \in 1..N})

RECURSIVE RoundIds(_, _)
\* the PMIDs submitted in round r, in the order of submission
RoundIds(log, r) ==
    IF log = <<>> THEN <<>>
    ELSE (IF Head(log).round = r THEN Head(log).ids ELSE <<>>)
            \o RoundIds(Tail(log), r)

\* C16: when the API resolves all N PMIDs within 3 rounds, process_papers
\* makes at most ceil(N / batch size) * 3 calls of the batch endpoint, each
\* carrying at most one batch size of PMIDs, and has a PMCID for all N.
ClaimC16 ==
    /\ \A i \in 1..Len(api_calls) : Len(api_calls[i].ids) <= BatchSize
    /\ (ResolverDone /\ ResolvesAllWithinCap) =>
          /\ Len(api_calls) <= CeilDiv(N, BatchSize) * 3
          /\ \A p \in 1..N : pmcid_map[p] # 0

WitnessC16 ==
    /\ ResolverDone
    /\ ResolvesAllWithinCap
    /\ N > BatchSize
    /\ pround = MaxRounds
    /\ Len(api_calls) > MaxRounds

\* C17: the resolver runs min(3, r) rounds, r being the first round after
\* which no PMID is unresolved: it starts no round once every PMID is
\* resolved, and goes on to the cap while one is unresolved, also after a
\* round that resolved nothing new.
ClaimC17 ==
    /\ [](ResolverDone => pround = Min2(MaxRounds, ConvergenceRound))
    /\ [][pround' # pround => Unresolved(pmids, pmcid_map) # <<>>]_vars
    /\ [](ResolverDone /\ Unresolved(pmids, pmcid_map) # <<>> => pround = MaxRounds)

WitnessC17 ==
    /\ ResolverDone
    /\ pround = MaxRounds
    /\ Unresolved(pmids, pmcid_map) = <<>>
    /\ \A p \in 1..N : pmcid_map[p] # 2
    /\ \E p \in 1..N : pmcid_map[p] = 1

\* C18: each round submits exactly the PMIDs that earlier rounds left
\* unresolved, in input order; a resolved PMID is not submitted again and
\* its mapping does not change; PMIDs unresolved after the last round are
\* left out of the result.
ClaimC18 ==
    /\ [](\A r \in 1..pround : (r < pround \/ ppc # "fetch") =>
            RoundIds(api_calls, r) =
                SelectSeq(pmids, LAMBDA p : pmcid_map[p] = 0 \/ pmcid_map[p] >= r))
    /\ [][\A p \in Pmids : pmcid_map[p] # 0 => pmcid_map'[p] = pmcid_map[p]]_vars
    /\ [](ResolverDone => \A p \in 1..N : avail[p] = Never => pmcid_map[p] = 0)

WitnessC18 ==
    /\ ResolverDone
    /\ N = 3
    /\ RoundIds(api_calls, 1) = <<1, 2, 3>>
    /\ RoundIds(api_calls, 2) = <<1, 3>>
    /\ RoundIds(api_calls, 3) = <<3>>
    /\ pmcid_map[3] = 0

(***************************************************************************)
(* Properties of DOIConverter                                              *)
(***************************************************************************)
\* a DOI that does not start with "10.", has no "/" or has fewer than 8
\* characters
Malformed(doi) ==
    LET d == Strip(doi)
    IN \/ ~StartsWith(d, <<"1", "0", ".">>)
       \/ ~Contains(d, "/")
       \/ Len(d) < 8

\* C19: doi_to_pmcid of a DOI that fails validate_doi returns None, sends no
\* request, does not call the rate limiter and leaves the cache as it was.
ClaimC19 ==
    /\ [](\A d \in DoiInputs : (Malformed(d) \/ ~ValidateDoi(d)) => doi_cache[d] = NotCached)
    /\ []((Malformed(dlast.doi) \/ ~ValidateDoi(dlast.doi)) =>
            dlast.result = None /\ dlast.requests = 0 /\ dlast.waits = 0)
    /\ [][(dlast' # dlast /\ (Malformed(dlast'.doi) \/ ~ValidateDoi(dlast'.doi))) =>
            doi_cache' = doi_cache]_vars

WitnessC19 ==
    /\ dlast.doi = <<"1", "0", ".", "1", "/", "a", "b">>
    /\ dlast.result = None
    /\ \E d \in DoiInputs : doi_cache[d] \in ApiPmcids

\* C20: once doi_to_pmcid(d) has returned for a valid DOI d, with a PMCID or
\* with None, every later doi_to_pmcid(d) returns the same value and sends
\* no request, until clear_cache().
ClaimC20 ==
    (dlast.repeat /\ first_result[dlast.doi] # "unknown") =>
        /\ dlast.result = first_result[dlast.doi]
        /\ dlast.requests = 0

WitnessC20 ==
    /\ dlast.repeat
    /\ first_result[dlast.doi] = None
    /\ dlast.result = None
    /\ ValidateDoi(dlast.doi)

\* a step in which session.get is called: the first attempt of a query or
\* an attempt the retry wrapper makes again
Sends == dpc = "send" /\ dlast'.requests = dlast.requests + 1

\* C21: every request the converter sends, the repeated attempts of the retry
\* wrapper included, comes after a wait_for_rate_limit call of its own, made
\* since the request before it was sent.
ClaimC21 == [][Sends => dwaited]_vars

(***************************************************************************)
(* Properties of IdentifierUtils                                           *)
(***************************************************************************)
NonSpace(c) == c \notin Whitespace
\* ^PMC\d{1,8}$ with the prefix in either case
PmcidShape(s) ==
    /\ Len(s) >= 4 /\ Len(s) <= 11
    /\ Lower(SubSeq(s, 1, 3)) = <<"p", "m", "c">>
    /\ \A i \in 4..Len(s) : s[i] \in Digits
\* ^\d{6,10}$
PmidShape(s) == Len(s) >= 6 /\ Len(s) <= 10 /\ \A i \in 1..Len(s) : s[i] \in Digits
\* ^10\.\S+/\S+
DoiShape(s) ==
    /\ StartsWith(s, <<"1", "0", ".">>)
    /\ \E i \in 4..(Len(s) - 2) :
          /\ \A j \in 4..i : NonSpace(s[j])
          /\ s[i + 1] = "/"
          /\ NonSpace(s[i + 2])
ClaimedType(s) ==
    IF PmcidShape(s) THEN "pmcid"
    ELSE IF DoiShape(s) /\ Len(s) > 8 THEN "doi"
    ELSE IF PmidShape(s) THEN "pmid"
    ELSE "unknown"

\* C22: detect_identifier_type(s) is pmcid, doi or pmid exactly when s, taken
\* without the blanks around it, has the PMCID shape, the DOI shape with more
\* than 8 characters, or the PMID shape, and unknown for every other string.
ClaimC22 == detected # "unset" => detected = ClaimedType(Strip(input))

\* the digits of s when s is 1 to 8 digits after one of the given prefixes,
\* or without prefix
DigitsAfter(s, prefixes) ==
    IF IsDigit(s) /\ Len(s) <= 8 THEN s
    ELSE IF /\ Len(s) >= 4
            /\ SubSeq(s, 1, 3) \in prefixes
            /\ IsDigit(From4(s)) /\ Len(From4(s)) <= 8
    THEN From4(s)
    ELSE NoString
AnyCasePmc == {p \in [1..3 -> {"P", "M", "C", "p", "m", "c"}] : Lower(p) = <<"p", "m", "c">>}

\* C23 as stated: the result is "PMC" followed by the digits that remain
\* after a prefix PMC or pmc, and None for every other input.
ClaimC23Original ==
    normalized # <<>> =>
        LET d == DigitsAfter(input, {<<"P", "M", "C">>, <<"p", "m", "c">>})
        IN normalized[1] = IF d # NoString THEN <<"P", "M", "C">> \o d ELSE NoString

\* C23: normalize_pmcid trims the blanks around its input and drops a
\* prefix PMC in any case of the letters; when 1 to 8 digits remain it
\* returns these digits, without prefix; for every other input it returns
\* None.
ClaimC23 ==
    normalized # <<>> => normalized[1] = DigitsAfter(Strip(input), AnyCasePmc)

WitnessC23 ==
    /\ input = <<" ", "P", "M", "C">> \o DigitRun(8) \o <<" ">>
    /\ normalized = <<DigitRun(8)>>

(***************************************************************************)
(* More properties of retry_with_backoff                                   *)
(***************************************************************************)
\* the wrapped function is invoked again
Retries == calls > 0 /\ calls' = calls + 1

YieldsPmcid(resp) == resp.kind = "response" /\ resp.status = 200 /\ resp.body \in ApiPmcids
\* the CrossRef response just received is a 200 whose message has a title
YieldsTitle(resp) == resp.kind = "response" /\ resp.status = 200 /\ resp.body = "title"
Begins(stage) == dstage # stage /\ dstage' = stage

\* C25: within one doi_to_pmcid call the Europe PMC DOI query comes first;
\* the CrossRef query begins only when the DOI query has ended without a
\* PMCID and use_fallback is set; the title query begins only when CrossRef
\* has answered with a title; and a query that yields a PMCID ends the call
\* with that PMCID.
ClaimC25 ==
    /\ [][Begins("doi") => dpc = "idle"]_vars
    /\ [][Begins("crossref") =>
            (dstage = "doi" /\ dpc = "send" /\ dfallback /\ ~YieldsPmcid(dresp'))]_vars
    /\ [][Begins("title") => (dstage = "crossref" /\ dpc = "send" /\ YieldsTitle(dresp'))]_vars
    /\ [][(dpc = "send" /\ dpc' # "sleep" /\ YieldsPmcid(dresp')) =>
            (dpc' = "idle" /\ dstage' = "none" /\ dlast'.result = dresp'.body)]_vars

WitnessC25 ==
    /\ dpc = "idle"
    /\ dlast.waits = 3
    /\ dlast.result \in ApiPmcids
    /\ YieldsPmcid(dresp)

\* the failures the retry policy is for: a timeout, a connection failure, or
\* a response with status 429, 502, 503 or 504
TransientFailure(resp) ==
    \/ resp.kind = "exception" /\ (IsTimeout(resp.exc) \/ IsConnectionError(resp.exc))
    \/ resp.kind = "response" /\ resp.status \in {429, 502, 503, 504}

\* C26: a request that ends in a transient failure is sent again after a
\* wait, up to 3 times per query; after the third retry the query ends
\* without result, and a call that ends there returns None.
ClaimC26 ==
    /\ [](dretry <= 3)
    /\ [][(Sends /\ TransientFailure(dresp') /\ dretry < 3) =>
            (dpc' = "sleep" /\ dstage' = dstage)]_vars
    /\ [][(Sends /\ TransientFailure(dresp') /\ dretry = 3) =>
            (dpc' \in {"idle", "wait"} /\ (dpc' = "idle" => dlast'.result = None))]_vars

\* C30: when doi_to_pmcid(d, use_fallback=True) returns None for a valid DOI,
\* CrossRef has been asked about d with the fallback on: the None is never
\* the one that a call with use_fallback=False left in the cache.
ClaimC30 ==
    (dpc = "idle" /\ dfallback /\ ValidateDoi(dlast.doi) /\ dlast.result = None) =>
        ~no_fallback[dlast.doi]

(***************************************************************************)
(* More properties of UnifiedDownloadManager                               *)
(***************************************************************************)
\* a result as the caller sees it, without the model's note of the task it
\* came from
Shown(r) == [r EXCEPT !.src = 0]
ShownList(rs) == [i \in 1..Len(rs) |-> Shown(rs[i])]
\* the orders in which as_completed can yield n tasks
CompletionOrders(n) == Permutations(1..n)
\* what download_batch returns when the tasks, with the outcomes they had,
\* are collected in the given order
ReturnedFor(order) ==
    ShownList(OrderedResults([k \in 1..Len(papers) |-> tloc[order[k]].result], papers))

\* C27: the list download_batch returned is the list it returns for the same
\* task outcomes under every other completion order.
ClaimC27 ==
    ReturnedFromPool =>
        \A order \in CompletionOrders(Len(papers)) : ReturnedFor(order) = ShownList(ret)

\* every item carries an identifier and no two items carry the same one
DistinctIdentifiers ==
    /\ \A i \in 1..Len(papers) : HasIdentifier(papers[i])
    /\ \A i, j \in 1..Len(papers) :
          i # j => Or(papers[i].doi, papers[i].pmcid) # Or(papers[j].doi, papers[j].pmcid)
SameIdentifier(a, b) == Or(a, "") = Or(b, "")

\* C28: when the task of an item ended with an exception, the slot of the
\* item holds a failed result with the error of the exception and the doi
\* and pmcid of the item (in a batch whose items carry distinct identifiers).
ClaimC28 ==
    (ReturnedFromPool /\ DistinctIdentifiers) =>
        \A i \in 1..Len(papers) :
            Raised(i) =>
                /\ i <= Len(ret)
                /\ ret[i].success = FALSE
                /\ ret[i].error = "exc"
                /\ SameIdentifier(ret[i].doi, papers[i].doi)
                /\ SameIdentifier(ret[i].pmcid, papers[i].pmcid)

CountersConsistent ==
    /\ completed = successful + failed
    /\ pdf_count <= successful
    /\ completed <= total
CountersReset == completed' = 0 /\ successful' = 0 /\ failed' = 0 /\ pdf_count' = 0
CallBegins == mpc = "idle" /\ mpc' # "idle"

====
